---- MODULE Spec2Model ----
(***************************************************************************)
(* Zotero web-library synchronisation (libraries.ts): the delta planner    *)
(* librarySyncActions, the replica merger librarySync / syncObjects, and   *)
(* the caller's write of the merged snapshot to the local store.           *)
(*                                                                         *)
(* One sync cycle of one library is modelled step by step: every `await`   *)
(* of librarySyncActions is a separate action, and the code that runs      *)
(* between two awaits is one atomic step.                                  *)
(***************************************************************************)
EXTENDS Integers, Sequences, FiniteSets, TLC

\* ------------------------------------------------------------------ bounds
MaxVersion == 1
MaxFeed == 1
MaxStored == 3
MaxActions == 2

\* the keys of the library's entities (opaque strings), in a fixed order
AllKeys == <<"K1", "K2">>
Keys == { AllKeys[i] : i \in DOMAIN AllKeys }
Versions == 0..MaxVersion
Streams == {"collections", "items", "deleted"}

\* ------------------------------------------------------------- data model
\* group?: Group  -- "none" stands for undefined / null
NoGroup == "none"

\* Collection / Item: `data` tells a stored payload from a fetched one
Collection(k, d) == [key |-> k, data |-> d]
Item(k, d, del) == [key |-> k, data |-> d, deleted |-> del]

\* all sequences of pairwise distinct elements of S
DistinctSeqs(S) ==
  { s \in UNION { [1..n -> S] : n \in 0..Cardinality(S) } :
      \A i, j \in DOMAIN s : i # j => s[i] # s[j] }

\* all orderings of the whole of S
Orderings(S) == { s \in DistinctSeqs(S) : Len(s) = Cardinality(S) }

KeysOf(objects) == [ i \in DOMAIN objects |-> objects[i].key ]

Range(s) == { s[i] : i \in DOMAIN s }

\* Array.prototype.includes
Includes(s, x) == \E i \in DOMAIN s : s[i] = x

\* Array.prototype.filter with the predicate "key is not in keys"
RECURSIVE FilterNotIn(_, _)
FilterNotIn(objects, keys) ==
  IF objects = <<>> THEN <<>>
  ELSE LET rest == FilterNotIn(Tail(objects), keys)
       IN  IF Includes(keys, Head(objects).key) THEN rest
           ELSE <<Head(objects)>> \o rest

\* ---------------------------------------------------------- remote answers
\* A response's optional version: <<>> when the response carries none.
NoVersion == <<>>
OptVersions == {NoVersion} \cup { <<v>> : v \in Versions }

\* zotero.deleted: null ("no changes") or { version?, data: {collections, items} }
NoDeleted == [some |-> FALSE, version |-> NoVersion, collections |-> <<>>, items |-> <<>>]
FeedLists == { s \in DistinctSeqs(Keys) : Len(s) <= MaxFeed }
DeletedResponses ==
  {NoDeleted} \cup
  [some : {TRUE}, version : OptVersions, collections : FeedLists, items : FeedLists]

\* zotero.collectionVersions / itemVersions: null or { version?, data: key -> version }
\* (only Object.keys(data) is read)
NoChanges == [some |-> FALSE, version |-> NoVersion, keys |-> {}]
ChangesResponses ==
  {NoChanges} \cup [some : {TRUE}, version : OptVersions, keys : SUBSET Keys]

\* zotero.collections(library, keys): the collections with these keys, in any order
CollectionFetches(keys) ==
  { [ i \in DOMAIN s |-> Collection(s[i], "remote") ] : s \in Orderings(keys) }

\* zotero.items(library, keys): the items with these keys, in any order, each
\* with or without data["deleted"]
ItemFetches(keys) ==
  UNION { { [ i \in DOMAIN s |-> Item(s[i], "remote", f[i]) ] :
              f \in [DOMAIN s -> BOOLEAN] } : s \in Orderings(keys) }

\* --------------------------------------------------------------- variables
VARIABLES
  store,             \* LocalLibraryStore: the persisted LibraryData of the library
  library,           \* the Library argument (type, group)
  groupSync,         \* the groupSync argument
  pc,                \* position of the cycle
  versions,          \* const versions = await libraryReadVersions(...)
  syncActions,       \* the plan under construction
  deleted,           \* const deleted
  collectionChanges, \* const collectionChanges
  collections,       \* const collections
  itemChanges,       \* const itemChanges
  items,             \* const items
  calls,             \* remote calls issued so far in this cycle
  promise,           \* outcome of librarySyncActions as seen by the caller
  merged,            \* the LibraryData returned by librarySync
  hasActions,        \* the value hasLibrarySyncActions returned to the caller
  wrote,             \* per query path, the plan fields its code has changed so far
  todo,              \* query paths not yet completed (paths run as separate tasks)
  user,              \* libraryList: the user argument
  groups,            \* libraryList: the groups argument
  libraries,         \* libraryList: the returned Library[]
  documents,         \* workspace: the editor's TextDocuments, per URI
  documentCache,     \* workspace: ResourceMap<VsCodeDocument>, per URI an object or none
  vsCodeDocuments,   \* workspace: the VsCodeDocument objects created so far
  reads,             \* workspace: per URI, the readFile calls awaiting their result
  handed,            \* workspace: per URI, the objects handed out since it was cached
  handler,           \* workspace: the handler or call that ran last
  fired,             \* workspace: the events that handler fired, in order
  quartoOpenDivs,    \* div rule: state.env.quartoOpenDivs, fence string -> open count
  stateLine,         \* div rule: state.line, the lines consumed so far
  divCall,           \* div rule: the last invocation (line, silent, value returned)
  pushed             \* div rule: the tokens that invocation pushed

listVars == <<user, groups, libraries>>

wsVars == <<documents, documentCache, vsCodeDocuments, reads, handed, handler, fired>>

divVars == <<quartoOpenDivs, stateLine, divCall, pushed>>

vars == <<store, library, groupSync, pc, versions, syncActions, deleted,
          collectionChanges, collections, itemChanges, items, calls, promise, merged,
          hasActions, wrote, todo, listVars, wsVars, divVars>>

\* ------------------------------------------------- librarySyncActions (code)
\* faulty variant: the version of the response is never taken
VersionOrFallbackOnly(version, fallback) == fallback

\* `response.version || fallback`: undefined and 0 are falsy
VersionOr(version, fallback) ==
  IF version # NoVersion /\ version[1] # 0 THEN version[1] ELSE fallback

\* faulty variant: no fallback, an absent group stays absent
GroupOrNoFallback(group, fallback) == group

\* `groupSync || undefined`
GroupOr(group, fallback) == IF group # NoGroup THEN group ELSE fallback

\* const syncActions = { versions: {0,0,0}, group, collections: {[],[]}, items: {[],[]} }
NewSyncActions(group) ==
  [ versions    |-> [collections |-> 0, items |-> 0, deleted |-> 0],
    group       |-> GroupOr(group, NoGroup),
    collections |-> [deleted |-> <<>>, updated |-> <<>>],
    items       |-> [deleted |-> <<>>, updated |-> <<>>] ]

\* faulty variant: collection keys are pushed to items.deleted and item keys to
\* collections.deleted
ApplyDeletedSwapped(sa, resp) ==
  IF ~resp.some THEN sa
  ELSE [ sa EXCEPT
           !.versions.deleted    = VersionOr(resp.version, sa.versions.deleted),
           !.collections.deleted = @ \o resp.items,
           !.items.deleted       = @ \o resp.collections ]

\* faulty variant: the key lists of the response are assigned, not pushed
ApplyDeletedAssigns(sa, resp) ==
  IF ~resp.some THEN sa
  ELSE [ sa EXCEPT
           !.versions.deleted    = VersionOr(resp.version, sa.versions.deleted),
           !.collections.deleted = resp.collections,
           !.items.deleted       = resp.items ]

\* if (deleted) { versions.deleted = ...; push every deleted collection / item key }
ApplyDeleted(sa, resp) ==
  IF ~resp.some THEN sa
  ELSE [ sa EXCEPT
           !.versions.deleted    = VersionOr(resp.version, sa.versions.deleted),
           !.collections.deleted = @ \o resp.collections,
           !.items.deleted       = @ \o resp.items ]

\* faulty variant: the keys of the fetched collections are pushed to collections.deleted
ApplyCollectionsAsDeletes(sa, changes, fetched) ==
  [ sa EXCEPT
      !.collections.deleted  = @ \o KeysOf(fetched),
      !.versions.collections = VersionOr(changes.version, sa.versions.collections) ]

\* faulty variant: the fetched collections are pushed in reverse order
ApplyCollectionsReversed(sa, changes, fetched) ==
  [ sa EXCEPT
      !.collections.updated  = @ \o [ i \in DOMAIN fetched |-> fetched[Len(fetched) + 1 - i] ],
      !.versions.collections = VersionOr(changes.version, sa.versions.collections) ]

\* for (const collection of collections) updated.push(collection); versions.collections = ...
ApplyCollections(sa, changes, fetched) ==
  [ sa EXCEPT
      !.collections.updated  = @ \o fetched,
      !.versions.collections = VersionOr(changes.version, sa.versions.collections) ]

\* for (const item of items) item.data["deleted"] ? items.deleted.push(item.key)
\*                                                 : items.updated.push(item)
\* faulty variant: the deleted flag is not looked at: every fetched item is an update
ClassifyItemsIgnoringFlag(acts, fetched) == [acts EXCEPT !.updated = @ \o fetched]

RECURSIVE ClassifyItems(_, _)
ClassifyItems(acts, fetched) ==
  IF fetched = <<>> THEN acts
  ELSE LET item == Head(fetched)
       IN  ClassifyItems(
             IF item.deleted
               THEN [acts EXCEPT !.deleted = Append(@, item.key)]
               ELSE [acts EXCEPT !.updated = Append(@, item)],
             Tail(fetched))

ApplyItems(sa, changes, fetched) ==
  [ sa EXCEPT
      !.items          = ClassifyItems(@, fetched),
      !.versions.items = VersionOr(changes.version, sa.versions.items) ]

\* the fields of the plan the three query paths assign or push to
PlanFields ==
  { "versions.deleted", "versions.collections", "versions.items",
    "collections.deleted", "collections.updated", "items.deleted", "items.updated" }

Field(sa, f) ==
  CASE f = "versions.deleted"     -> <<sa.versions.deleted>>
    [] f = "versions.collections" -> <<sa.versions.collections>>
    [] f = "versions.items"       -> <<sa.versions.items>>
    [] f = "collections.deleted"  -> sa.collections.deleted
    [] f = "collections.updated"  -> sa.collections.updated
    [] f = "items.deleted"        -> sa.items.deleted
    [] f = "items.updated"        -> sa.items.updated

\* the fields in which the plan differs after a path's code has run
ChangedFields(before, after) ==
  { f \in PlanFields : Field(before, f) # Field(after, f) }

NoWrites == [deletion |-> {}, collections |-> {}, items |-> {}]

\* what the caller of the async function gets
NoPlan == [none |-> TRUE]
Pending == [state |-> "pending", value |-> NoPlan]
Fulfilled(sa) == [state |-> "fulfilled", value |-> sa]
\* faulty variant: the error is caught and the plan built so far is returned
RejectedKeepsPlan(sa) == [state |-> "fulfilled", value |-> sa]

\* an awaited call throws: no try/catch, so the promise rejects and sa is dropped
Rejected(sa) == [state |-> "rejected", value |-> NoPlan]

\* ------------------------------------------------------ librarySync (code)
\* faulty variant: updates are appended without removing the entries they replace
syncObjectsAppendOnly(objects, actions) ==
  FilterNotIn(objects, actions.deleted) \o actions.updated

\* faulty variant: updates are put in front of the surviving entries
syncObjectsPrepend(objects, actions) ==
  actions.updated
    \o FilterNotIn(FilterNotIn(objects, actions.deleted), KeysOf(actions.updated))

\* faulty variant: the deletes are applied after the updates were added
syncObjectsDeletesLast(objects, actions) ==
  FilterNotIn(FilterNotIn(objects, KeysOf(actions.updated)) \o actions.updated,
              actions.deleted)

syncObjects(objects, actions) ==
  LET afterDeletes == FilterNotIn(objects, actions.deleted)
      updatedIds   == KeysOf(actions.updated)
      afterUpdates == FilterNotIn(afterDeletes, updatedIds)
  IN  afterUpdates \o actions.updated

\* faulty variant: the snapshot keeps the stored cursors
librarySyncKeepsCursor(local, lib, sa) ==
  [ group       |-> GroupOr(sa.group, lib.group),
    versions    |-> local.versions,
    collections |-> syncObjects(local.collections, sa.collections),
    items       |-> syncObjects(local.items, sa.items) ]

librarySync(local, lib, sa) ==
  [ group       |-> GroupOr(sa.group, lib.group),
    versions    |-> sa.versions,
    collections |-> syncObjects(local.collections, sa.collections),
    items       |-> syncObjects(local.items, sa.items) ]

\* faulty variant: keys to delete from the items are not counted as an action
hasLibrarySyncActionsNoItemDeletes(sa) ==
  \/ sa.group # NoGroup
  \/ Len(sa.collections.deleted) > 0
  \/ Len(sa.collections.updated) > 0
  \/ Len(sa.items.updated) > 0

hasLibrarySyncActions(sa) ==
  \/ sa.group # NoGroup
  \/ Len(sa.collections.deleted) > 0
  \/ Len(sa.collections.updated) > 0
  \/ Len(sa.items.deleted) > 0
  \/ Len(sa.items.updated) > 0

\* ------------------------------------------------------------------- Init
\* the cursors a library was left with: the three streams at the same version (the
\* plan is built without reading them; they are only passed to the remote)
StoredCursors ==
  { [collections |-> v, items |-> v, deleted |-> v] : v \in Versions }

\* the local replica before the cycle: as created on first sync (all cursors zero,
\* empty sequences), or holding every key of the library
StoredCollections(s) == [ i \in DOMAIN s |-> Collection(s[i], "local") ]
StoredItems(s) == [ i \in DOMAIN s |-> Item(s[i], "local", FALSE) ]
Snapshot(g, v, s) ==
  [ group |-> g, versions |-> v,
    collections |-> StoredCollections(s), items |-> StoredItems(s) ]
StoredSnapshots(g) ==
  { Snapshot(g, [collections |-> 0, items |-> 0, deleted |-> 0], <<>>) }
    \cup { Snapshot(g, v, AllKeys) : v \in StoredCursors }

\* libraryList: the user's library has no group, a group library carries its group
Libraries == { [type |-> "user", group |-> NoGroup], [type |-> "group", group |-> "G0"] }
GroupSyncs(lib) == IF lib.type = "user" THEN {NoGroup} ELSE {NoGroup, "G1"}

\* no call of librarySyncActions is in progress
NoLocals ==
  /\ versions = [collections |-> 0, items |-> 0, deleted |-> 0]
  /\ syncActions = NewSyncActions(NoGroup)
  /\ deleted = NoDeleted
  /\ collectionChanges = NoChanges
  /\ collections = <<>>
  /\ itemChanges = NoChanges
  /\ items = <<>>
  /\ wrote = NoWrites

\* the frame of librarySyncActions is dropped
DropLocals ==
  /\ versions' = [collections |-> 0, items |-> 0, deleted |-> 0]
  /\ syncActions' = NewSyncActions(NoGroup)
  /\ deleted' = NoDeleted
  /\ collectionChanges' = NoChanges
  /\ collections' = <<>>
  /\ itemChanges' = NoChanges
  /\ items' = <<>>
  /\ calls' = <<>>
  /\ wrote' = NoWrites

NoData == [none |-> TRUE]

\* libraryList is not being called
NoList ==
  /\ user = [userID |-> "U0"]
  /\ groups = <<>>
  /\ libraries = <<>>

\* ---------------------------------------------- workspace.ts: data
MaxObjects == 3
MaxReads == 2

\* resources: one with a markdown extension, one without
Uris == {"a.qmd", "b.txt"}

\* looksLikeMarkdownPath: the extension is one of config.markdownFileExtensions
looksLikeMarkdownPath(u) == u = "a.qmd"

\* documents.get(uri): "closed" when the editor does not hold the document; an open
\* document is a relevant markdown document (isRelevantMarkdownDocument) or another
isRelevantMarkdownDocument(d) == d = "relevant"

\* new VsCodeDocument(uri, { inMemoryDoc }) / new VsCodeDocument(uri, { onDiskDoc })
VsCodeDocument(u, mem, disk) == [uri |-> u, inMemoryDoc |-> mem, onDiskDoc |-> disk]

\* faulty variant: a document is never taken as detached
isDetachedNever(doc) == FALSE

\* isDetached(): !this.onDiskDoc && !this.inMemoryDoc
isDetached(doc) == ~doc.onDiskDoc /\ ~doc.inMemoryDoc

\* an event as a listener sees it; cached tells whether doc is the cache's entry
\* for its URI at the moment the event fires
Fire(kind, u, doc, cache) == [kind |-> kind, uri |-> u, doc |-> doc, cached |-> cache[u] = doc]

Ran(name, u, detached) == [name |-> name, uri |-> u, detached |-> detached]

\* the workspace as languageServiceWorkspace leaves it: nothing open, nothing cached
NoWorkspace ==
  /\ documents = [u \in Uris |-> "closed"]
  /\ documentCache = [u \in Uris |-> 0]
  /\ vsCodeDocuments = <<>>
  /\ reads = [u \in Uris |-> 0]
  /\ handed = [u \in Uris |-> {}]
  /\ handler = Ran("none", "none", FALSE)
  /\ fired = <<>>

\* ------------------------------------------------- divs.ts: data
MaxColons == 4
MaxLines == 4

\* a source line: a run of colons followed by nothing, by an attribute brace, by
\* an empty brace or by other text
Rests == {"", "{.note}", "{}", " text"}
SrcLines == [colons : 1..MaxColons, rest : Rests]

RestLen(rest) ==
  CASE rest = ""        -> 0
    [] rest = "{.note}" -> 7
    [] rest = "{}"      -> 2
    [] rest = " text"   -> 5

\* undefined (no match[2], or no match at all)
NoAttr == "undefined"
NoMatch == [matched |-> FALSE, fence |-> 0, attr |-> NoAttr]

\* /^(:::+)(?:\{([\s\S]+?)\})?$/.exec(line): match[1] is the run of colons (told by
\* its length), match[2] the text between the braces, which has at least one character
divRegex(l) ==
  IF l.colons >= 3 /\ l.rest = ""
    THEN [matched |-> TRUE, fence |-> l.colons, attr |-> NoAttr]
  ELSE IF l.colons >= 3 /\ l.rest = "{.note}"
    THEN [matched |-> TRUE, fence |-> l.colons, attr |-> ".note"]
  ELSE NoMatch

\* state.env.quartoOpenDivs[fence] || 0 (an absent key and 0 read the same)
OpenCount(divs, fence) == IF fence \in DOMAIN divs THEN divs[fence] ELSE 0

Max0(n) == IF n > 0 THEN n ELSE 0

SetCount(divs, fence, n) ==
  [ f \in DOMAIN divs \cup {fence} |-> IF f = fence THEN n ELSE divs[f] ]

incrementDivCount(divs, fence) == SetCount(divs, fence, Max0(OpenCount(divs, fence) + 1))

decrementDivCount(divs, fence) == SetCount(divs, fence, Max0(OpenCount(divs, fence) - 1))

\* faulty variant: only a fence with attributes opens a div
isOpenDivAttrOnly(openCount, attr) == attr # NoAttr

\* lines 162-170: no div open for this fence string, or the line has attributes
isOpenDiv(openCount, attr) == openCount = 0 \/ attr # NoAttr

\* state.push(type, "div", nesting) with token.markup = line
Token(type, nesting, l) == [type |-> type, tag |-> "div", nesting |-> nesting, markup |-> l]

DivCall(l, silent, returned) == [line |-> l, silent |-> silent, returned |-> returned]

\* no document is being parsed
NoDiv ==
  /\ quartoOpenDivs = << >>
  /\ stateLine = 0
  /\ divCall = DivCall([colons |-> 0, rest |-> ""], TRUE, FALSE)
  /\ pushed = << >>

Init ==
  /\ library \in Libraries
  /\ groupSync \in GroupSyncs(library)
  /\ store \in StoredSnapshots(library.group)
  /\ pc = "idle"
  /\ NoLocals
  /\ calls = <<>>
  /\ promise = Pending
  /\ merged = NoData
  /\ hasActions = FALSE
  /\ todo = {}
  /\ NoList
  /\ NoWorkspace
  /\ NoDiv

\* ---------------------------------------------------------------- actions
Call(op, since, keys, ok) == [op |-> op, since |-> since, keys |-> keys, ok |-> ok]

\* a remote call throws: the async function rejects at this await
Throw(op, since, keys) ==
  /\ calls' = Append(calls, Call(op, since, keys, FALSE))
  /\ promise' = Rejected(syncActions)
  /\ pc' = "failed"

\* lines 46-74: build the empty plan, then await libraryReadVersions
Start ==
  /\ pc = "idle"
  /\ syncActions' = NewSyncActions(groupSync)
  /\ versions' = store.versions
  /\ pc' = "deleted"
  /\ UNCHANGED <<store, library, groupSync, deleted, collectionChanges, collections,
                 itemChanges, items, calls, promise, merged>>
  /\ UNCHANGED <<hasActions, wrote, todo, listVars, wsVars, divVars>>

\* lines 77-94: await zotero.deleted(library, versions.deleted)
Deleted ==
  /\ pc = "deleted"
  /\ \/ \E r \in DeletedResponses :
          /\ deleted' = r
          /\ syncActions' = ApplyDeleted(syncActions, r)
          /\ calls' = Append(calls, Call("deleted", versions.deleted, {}, TRUE))
          /\ pc' = "collectionVersions"
          /\ UNCHANGED promise
     \/ /\ Throw("deleted", versions.deleted, {})
        /\ UNCHANGED <<deleted, syncActions>>
  /\ wrote' = [wrote EXCEPT !.deletion = @ \cup ChangedFields(syncActions, syncActions')]
  /\ UNCHANGED <<store, library, groupSync, versions, collectionChanges, collections,
                 itemChanges, items, merged>>
  /\ UNCHANGED <<hasActions, todo, listVars, wsVars, divVars>>

\* faulty variant: the collections are fetched even when no changes were reported
CollectionVersionsAlwaysFetches ==
  /\ pc = "collectionVersions"
  /\ \/ \E r \in ChangesResponses :
          /\ collectionChanges' = r
          /\ calls' = Append(calls, Call("collectionVersions", versions.collections, {}, TRUE))
          /\ pc' = "collections"
          /\ UNCHANGED promise
     \/ /\ Throw("collectionVersions", versions.collections, {})
        /\ UNCHANGED collectionChanges
  /\ UNCHANGED <<store, library, groupSync, versions, syncActions, deleted, collections,
                 itemChanges, items, merged>>
  /\ UNCHANGED <<hasActions, wrote, todo, listVars, wsVars, divVars>>

\* lines 97-98: await zotero.collectionVersions(library, versions.collections)
CollectionVersions ==
  /\ pc = "collectionVersions"
  /\ \/ \E r \in ChangesResponses :
          /\ collectionChanges' = r
          /\ calls' = Append(calls, Call("collectionVersions", versions.collections, {}, TRUE))
          /\ pc' = IF r.some THEN "collections" ELSE "itemVersions"
          /\ UNCHANGED promise
     \/ /\ Throw("collectionVersions", versions.collections, {})
        /\ UNCHANGED collectionChanges
  /\ UNCHANGED <<store, library, groupSync, versions, syncActions, deleted, collections,
                 itemChanges, items, merged>>
  /\ UNCHANGED <<hasActions, wrote, todo, listVars, wsVars, divVars>>

\* lines 100-107: await zotero.collections(library, Object.keys(collectionChanges.data))
Collections ==
  /\ pc = "collections"
  /\ \/ \E f \in CollectionFetches(collectionChanges.keys) :
          /\ collections' = f
          /\ syncActions' = ApplyCollections(syncActions, collectionChanges, f)
          /\ calls' = Append(calls, Call("collections", 0, collectionChanges.keys, TRUE))
          /\ pc' = "itemVersions"
          /\ UNCHANGED promise
     \/ /\ Throw("collections", 0, collectionChanges.keys)
        /\ UNCHANGED <<collections, syncActions>>
  /\ wrote' = [wrote EXCEPT !.collections = @ \cup ChangedFields(syncActions, syncActions')]
  /\ UNCHANGED <<store, library, groupSync, versions, deleted, collectionChanges,
                 itemChanges, items, merged>>
  /\ UNCHANGED <<hasActions, todo, listVars, wsVars, divVars>>

\* faulty variant: a response without a version is treated as "no changes"
ItemVersionsSkipsUnversioned ==
  /\ pc = "itemVersions"
  /\ \/ \E r \in ChangesResponses :
          /\ itemChanges' = r
          /\ calls' = Append(calls, Call("itemVersions", versions.items, {}, TRUE))
          /\ IF r.some /\ r.version # NoVersion
               THEN pc' = "items" /\ UNCHANGED promise
               ELSE pc' = "done" /\ promise' = Fulfilled(syncActions)
     \/ /\ Throw("itemVersions", versions.items, {})
        /\ UNCHANGED itemChanges
  /\ UNCHANGED <<store, library, groupSync, versions, syncActions, deleted,
                 collectionChanges, collections, items, merged>>
  /\ UNCHANGED <<hasActions, wrote, todo, listVars, wsVars, divVars>>

\* lines 110-111 (and 128 when there are no item changes)
ItemVersions ==
  /\ pc = "itemVersions"
  /\ \/ \E r \in ChangesResponses :
          /\ itemChanges' = r
          /\ calls' = Append(calls, Call("itemVersions", versions.items, {}, TRUE))
          /\ IF r.some
               THEN pc' = "items" /\ UNCHANGED promise
               ELSE pc' = "done" /\ promise' = Fulfilled(syncActions)
     \/ /\ Throw("itemVersions", versions.items, {})
        /\ UNCHANGED itemChanges
  /\ UNCHANGED <<store, library, groupSync, versions, syncActions, deleted,
                 collectionChanges, collections, items, merged>>
  /\ UNCHANGED <<hasActions, wrote, todo, listVars, wsVars, divVars>>

\* lines 113-128: await zotero.items(...), classify, return syncActions
Items ==
  /\ pc = "items"
  /\ \/ \E f \in ItemFetches(itemChanges.keys) :
          /\ items' = f
          /\ syncActions' = ApplyItems(syncActions, itemChanges, f)
          /\ calls' = Append(calls, Call("items", 0, itemChanges.keys, TRUE))
          /\ promise' = Fulfilled(syncActions')
          /\ pc' = "done"
     \/ /\ Throw("items", 0, itemChanges.keys)
        /\ UNCHANGED <<items, syncActions>>
  /\ wrote' = [wrote EXCEPT !.items = @ \cup ChangedFields(syncActions, syncActions')]
  /\ UNCHANGED <<store, library, groupSync, versions, deleted, collectionChanges,
                 collections, itemChanges, merged>>
  /\ UNCHANGED <<hasActions, todo, listVars, wsVars, divVars>>

\* faulty variant: syncObjects removes from and pushes to the arrays it was given,
\* and empties the plan's updated lists as it moves their entries
LibrarySyncInPlace ==
  /\ pc = "done"
  /\ merged' = librarySync(store, library, promise.value)
  /\ store' = [store EXCEPT !.collections = merged'.collections, !.items = merged'.items]
  /\ promise' = [promise EXCEPT !.value.collections.updated = <<>>,
                                !.value.items.updated = <<>>]
  /\ pc' = "merged"
  /\ DropLocals
  /\ UNCHANGED <<library, groupSync>>
  /\ UNCHANGED <<hasActions, todo, listVars, wsVars, divVars>>

\* faulty variant: librarySync writes its result to the store itself
LibrarySyncPersists ==
  /\ pc = "done"
  /\ merged' = librarySync(store, library, promise.value)
  /\ store' = merged'
  /\ pc' = "merged"
  /\ DropLocals
  /\ UNCHANGED <<library, groupSync, promise>>
  /\ UNCHANGED <<hasActions, todo, listVars, wsVars, divVars>>

\* lines 131-146: the caller hands the returned plan to librarySync; the frame of
\* librarySyncActions is gone by then
LibrarySync ==
  /\ pc = "done"
  /\ merged' = librarySync(store, library, promise.value)
  /\ pc' = "merged"
  /\ DropLocals
  /\ UNCHANGED <<store, library, groupSync, promise>>
  /\ UNCHANGED <<hasActions, todo, listVars, wsVars, divVars>>

\* the caller writes the snapshot returned by librarySync to the store
LibraryWrite ==
  /\ pc = "merged"
  /\ store' = merged
  /\ pc' = "written"
  /\ UNCHANGED <<library, groupSync, versions, syncActions, deleted, collectionChanges,
                 collections, itemChanges, items, calls, promise, merged>>
  /\ UNCHANGED <<hasActions, wrote, todo, listVars, wsVars, divVars>>

\* lines 148-154: the caller asks whether the plan it merged has any action
HasLibrarySyncActions ==
  /\ pc = "merged"
  /\ hasActions' = hasLibrarySyncActions(promise.value)
  /\ pc' = "checked"
  /\ UNCHANGED <<store, library, groupSync, versions, syncActions, deleted,
                 collectionChanges, collections, itemChanges, items, calls, promise,
                 merged, wrote, todo, listVars, wsVars, divVars>>

Next ==
  \/ Start
  \/ Deleted
  \/ CollectionVersions
  \/ Collections
  \/ ItemVersions
  \/ Items
  \/ LibrarySync
  \/ LibraryWrite
  \/ HasLibrarySyncActions

Spec == Init /\ [][Next]_vars

\* ------------------------------------- the three query paths in any order
\* The code awaits the three paths one after the other. SpecOrder runs the same
\* three blocks as separately scheduled tasks that are joined before the plan is
\* returned: the answers of the remote are fixed at the start, the block of a path
\* runs without interruption once its answers are in (no await inside it), and the
\* paths complete in any order.
Paths == {"deletion", "collections", "items"}

InitOrder ==
  /\ library = [type |-> "user", group |-> NoGroup]
  /\ groupSync = NoGroup
  /\ store \in { Snapshot(NoGroup, [collections |-> 0, items |-> 0, deleted |-> 0], <<>>),
                 Snapshot(NoGroup, [collections |-> MaxVersion, items |-> MaxVersion,
                                    deleted |-> MaxVersion], AllKeys) }
  /\ versions = store.versions
  /\ syncActions = NewSyncActions(groupSync)
  /\ deleted \in DeletedResponses
  /\ collectionChanges \in ChangesResponses
  /\ collections \in CollectionFetches(collectionChanges.keys)
  /\ itemChanges \in ChangesResponses
  /\ items \in ItemFetches(itemChanges.keys)
  /\ wrote = NoWrites
  /\ todo = Paths
  /\ pc = "paths"
  /\ calls = <<>>
  /\ promise = Pending
  /\ merged = NoData
  /\ hasActions = FALSE
  /\ NoList
  /\ NoWorkspace
  /\ NoDiv

\* lines 78-94 run when zotero.deleted has answered
RunDeleted ==
  /\ pc = "paths"
  /\ "deletion" \in todo
  /\ syncActions' = ApplyDeleted(syncActions, deleted)
  /\ todo' = todo \ {"deletion"}
  /\ UNCHANGED <<store, library, groupSync, pc, versions, deleted, collectionChanges,
                 collections, itemChanges, items, calls, promise, merged, hasActions,
                 wrote, listVars, wsVars, divVars>>

\* lines 98-107 run when zotero.collectionVersions and zotero.collections have answered
RunCollections ==
  /\ pc = "paths"
  /\ "collections" \in todo
  /\ syncActions' = IF collectionChanges.some
                      THEN ApplyCollections(syncActions, collectionChanges, collections)
                      ELSE syncActions
  /\ todo' = todo \ {"collections"}
  /\ UNCHANGED <<store, library, groupSync, pc, versions, deleted, collectionChanges,
                 collections, itemChanges, items, calls, promise, merged, hasActions,
                 wrote, listVars, wsVars, divVars>>

\* lines 111-126 run when zotero.itemVersions and zotero.items have answered
RunItems ==
  /\ pc = "paths"
  /\ "items" \in todo
  /\ syncActions' = IF itemChanges.some
                      THEN ApplyItems(syncActions, itemChanges, items)
                      ELSE syncActions
  /\ todo' = todo \ {"items"}
  /\ UNCHANGED <<store, library, groupSync, pc, versions, deleted, collectionChanges,
                 collections, itemChanges, items, calls, promise, merged, hasActions,
                 wrote, listVars, wsVars, divVars>>

\* line 128: the plan is returned once the three paths are done
JoinPaths ==
  /\ pc = "paths"
  /\ todo = {}
  /\ promise' = Fulfilled(syncActions)
  /\ pc' = "joined"
  /\ UNCHANGED <<store, library, groupSync, versions, syncActions, deleted,
                 collectionChanges, collections, itemChanges, items, calls, merged,
                 hasActions, wrote, todo, listVars, wsVars, divVars>>

NextOrder ==
  \/ RunDeleted
  \/ RunCollections
  \/ RunItems
  \/ JoinPaths

SpecOrder == InitOrder /\ [][NextOrder]_vars

\* ------------------------------------------- workspace.ts: the handlers
\* The handlers and openMarkdownDocument run to their first await without
\* interruption; the only await is the readFile of openMarkdownDocumentFromFs.
syncVars == <<store, library, groupSync, pc, versions, syncActions, deleted,
              collectionChanges, collections, itemChanges, items, calls, promise,
              merged, hasActions, wrote, todo>>

InitWorkspace ==
  /\ NoWorkspace
  /\ NoDiv
  /\ pc = "workspace"
  /\ library = [type |-> "user", group |-> NoGroup]
  /\ groupSync = NoGroup
  /\ store = Snapshot(NoGroup, [collections |-> 0, items |-> 0, deleted |-> 0], <<>>)
  /\ NoLocals
  /\ calls = <<>>
  /\ promise = Pending
  /\ merged = NoData
  /\ hasActions = FALSE
  /\ todo = {}
  /\ NoList

\* the index a new VsCodeDocument gets
NewDoc == Len(vsCodeDocuments) + 1

\* doc is handed to a listener or a caller for URI u
HandOut(u, doc) == handed' = [handed EXCEPT ![u] = @ \cup {doc}]

\* lines 107-129: documents.onDidOpen (the manager holds the document by then)
DidOpen ==
  \E u \in Uris, d \in {"relevant", "other"} :
    /\ documents[u] = "closed"
    /\ documents' = [documents EXCEPT ![u] = d]
    /\ handler' = Ran("open", u, FALSE)
    /\ IF ~isRelevantMarkdownDocument(d)
         THEN /\ fired' = <<>>
              /\ UNCHANGED <<documentCache, vsCodeDocuments, handed>>
         ELSE IF documentCache[u] # 0
           THEN /\ vsCodeDocuments' =
                     [vsCodeDocuments EXCEPT ![documentCache[u]].inMemoryDoc = TRUE]
                /\ fired' = << Fire("change", u, documentCache[u], documentCache) >>
                /\ HandOut(u, documentCache[u])
                /\ UNCHANGED documentCache
           ELSE /\ NewDoc <= MaxObjects
                /\ vsCodeDocuments' = Append(vsCodeDocuments, VsCodeDocument(u, TRUE, FALSE))
                /\ documentCache' = [documentCache EXCEPT ![u] = NewDoc]
                /\ fired' = << Fire("create", u, NewDoc, documentCache') >>
                /\ HandOut(u, NewDoc)
    /\ UNCHANGED <<reads, syncVars, listVars, divVars>>

\* lines 131-144: documents.onDidChangeContent
DidChangeContent ==
  \E u \in Uris :
    /\ documents[u] # "closed"
    /\ handler' = Ran("change", u, FALSE)
    /\ IF isRelevantMarkdownDocument(documents[u]) /\ documentCache[u] # 0
         THEN /\ vsCodeDocuments' =
                   [vsCodeDocuments EXCEPT ![documentCache[u]].inMemoryDoc = TRUE]
              /\ fired' = << Fire("change", u, documentCache[u], documentCache) >>
              /\ HandOut(u, documentCache[u])
         ELSE /\ fired' = <<>>
              /\ UNCHANGED <<vsCodeDocuments, handed>>
    /\ UNCHANGED <<documents, documentCache, reads, syncVars, listVars, divVars>>

\* lines 101-105: doDeleteDocument
DoDeleteDocument(u) ==
  /\ documentCache' = [documentCache EXCEPT ![u] = 0]
  /\ fired' = << Fire("delete", u, 0, documentCache') >>
  /\ handed' = [handed EXCEPT ![u] = {}]

\* lines 146-181: documents.onDidClose (the manager has dropped the document by
\* then, so statBypassingCache goes to fs.statSync: onDisk is its answer)
DidClose ==
  \E u \in Uris, onDisk \in BOOLEAN :
    /\ documents[u] # "closed"
    /\ documents' = [documents EXCEPT ![u] = "closed"]
    /\ IF ~isRelevantMarkdownDocument(documents[u]) \/ documentCache[u] = 0
         THEN /\ handler' = Ran("close", u, FALSE)
              /\ fired' = <<>>
              /\ UNCHANGED <<documentCache, vsCodeDocuments, handed>>
         ELSE LET doc == documentCache[u]
                  closed == [vsCodeDocuments EXCEPT ![doc].inMemoryDoc = FALSE]
              IN  /\ vsCodeDocuments' = closed
                  /\ handler' = Ran("close", u, isDetached(closed[doc]))
                  /\ IF isDetached(closed[doc])
                       THEN DoDeleteDocument(u)
                       ELSE IF ~onDisk /\ documentCache[u] = doc /\ ~closed[doc].inMemoryDoc
                         THEN DoDeleteDocument(u)
                         ELSE /\ fired' = << Fire("change", u, doc, documentCache) >>
                              /\ HandOut(u, doc)
                              /\ UNCHANGED documentCache
    /\ UNCHANGED <<reads, syncVars, listVars, divVars>>

\* lines 235-255 and 65-71: openMarkdownDocument up to the await of readFile
OpenMarkdownDocument ==
  \E u \in Uris :
    /\ handler' = Ran("openMarkdownDocument", u, FALSE)
    /\ fired' = <<>>
    /\ IF documentCache[u] # 0
         THEN /\ HandOut(u, documentCache[u])
              /\ UNCHANGED <<documentCache, vsCodeDocuments, reads>>
         ELSE IF documents[u] # "closed"
           THEN /\ NewDoc <= MaxObjects
                /\ vsCodeDocuments' = Append(vsCodeDocuments, VsCodeDocument(u, TRUE, FALSE))
                /\ documentCache' = [documentCache EXCEPT ![u] = NewDoc]
                /\ HandOut(u, NewDoc)
                /\ UNCHANGED reads
           ELSE IF ~looksLikeMarkdownPath(u)
             THEN UNCHANGED <<documentCache, vsCodeDocuments, reads, handed>>
             ELSE /\ reads[u] < MaxReads
                  /\ reads' = [reads EXCEPT ![u] = @ + 1]
                  /\ UNCHANGED <<documentCache, vsCodeDocuments, handed>>
    /\ UNCHANGED <<documents, syncVars, listVars, divVars>>

\* lines 71-80: readFile has answered (ok) or thrown; on ok the new on-disk document
\* is put in the cache whatever the cache holds, and returned
ReadFile ==
  \E u \in Uris, ok \in BOOLEAN :
    /\ reads[u] > 0
    /\ reads' = [reads EXCEPT ![u] = @ - 1]
    /\ handler' = Ran("readFile", u, FALSE)
    /\ fired' = <<>>
    /\ IF ok
         THEN /\ NewDoc <= MaxObjects
              /\ vsCodeDocuments' = Append(vsCodeDocuments, VsCodeDocument(u, FALSE, TRUE))
              /\ documentCache' = [documentCache EXCEPT ![u] = NewDoc]
              /\ HandOut(u, NewDoc)
         ELSE UNCHANGED <<documentCache, vsCodeDocuments, handed>>
    /\ UNCHANGED <<documents, syncVars, listVars, divVars>>

NextWorkspace ==
  \/ DidOpen
  \/ DidChangeContent
  \/ DidClose
  \/ OpenMarkdownDocument
  \/ ReadFile

SpecWorkspace == InitWorkspace /\ [][NextWorkspace]_vars

\* ------------------------------------------------- divs.ts: the block rule
InitDiv ==
  /\ NoDiv
  /\ NoWorkspace
  /\ pc = "div"
  /\ library = [type |-> "user", group |-> NoGroup]
  /\ groupSync = NoGroup
  /\ store = Snapshot(NoGroup, [collections |-> 0, items |-> 0, deleted |-> 0], <<>>)
  /\ NoLocals
  /\ calls = <<>>
  /\ promise = Pending
  /\ merged = NoData
  /\ hasActions = FALSE
  /\ todo = {}
  /\ NoList

\* lines 109-199: the rule is run on the next line of the document; a line the
\* rule declines (it returns false) is consumed by another rule of the parser
DivRule ==
  \E l \in SrcLines, silent \in BOOLEAN :
    /\ stateLine < MaxLines
    /\ IF silent
         THEN /\ divCall' = DivCall(l, TRUE, TRUE)
              /\ pushed' = << >>
              /\ UNCHANGED <<quartoOpenDivs, stateLine>>
         ELSE IF l.colons + RestLen(l.rest) < 3 \/ l.colons < 3
           THEN /\ divCall' = DivCall(l, FALSE, FALSE)
                /\ pushed' = << >>
                /\ stateLine' = stateLine + 1
                /\ UNCHANGED quartoOpenDivs
           ELSE LET match == divRegex(l)
                    divState == quartoOpenDivs
                IN  /\ divCall' = DivCall(l, FALSE, TRUE)
                    /\ stateLine' = stateLine + 1
                    /\ IF ~match.matched
                         THEN /\ pushed' = << >>
                              /\ UNCHANGED quartoOpenDivs
                         ELSE IF isOpenDiv(OpenCount(divState, match.fence), match.attr)
                           THEN /\ quartoOpenDivs' =
                                     incrementDivCount(quartoOpenDivs, match.fence)
                                /\ pushed' = << Token("pandoc_div_open", 1, l) >>
                           ELSE /\ quartoOpenDivs' =
                                     decrementDivCount(quartoOpenDivs, match.fence)
                                /\ pushed' = << Token("pandoc_div_close", -1, l) >>
    /\ UNCHANGED <<syncVars, listVars, wsVars>>

NextDiv == DivRule

SpecDiv == InitDiv /\ [][NextDiv]_vars

\* ------------------------------------------------------------ libraryList
MaxGroups == 3

Users == { [userID |-> "U1"], [userID |-> "U2"] }
GroupPool == [ id : {"G0", "G1"}, name : {"lab", "team"} ]
GroupSeqs == UNION { [1..n -> GroupPool] : n \in 0..MaxGroups }

\* faulty variant: the user's library is put after the group libraries
libraryListUserLast(u, gs) ==
  [ i \in DOMAIN gs |-> [type |-> "group", id |-> gs[i].id, group |-> gs[i]] ]
    \o << [type |-> "user", id |-> u.userID] >>

\* lines 41-44: [user library].concat(groups.map(group => group library))
libraryList(u, gs) ==
  << [type |-> "user", id |-> u.userID] >>
    \o [ i \in DOMAIN gs |-> [type |-> "group", id |-> gs[i].id, group |-> gs[i]] ]

\* libraryList is called for any user and any sequence of groups; no sync is running
InitList ==
  /\ user \in Users
  /\ groups \in GroupSeqs
  /\ libraries = <<>>
  /\ pc = "list"
  /\ library = [type |-> "user", group |-> NoGroup]
  /\ groupSync = NoGroup
  /\ store = Snapshot(NoGroup, [collections |-> 0, items |-> 0, deleted |-> 0], <<>>)
  /\ NoLocals
  /\ calls = <<>>
  /\ promise = Pending
  /\ merged = NoData
  /\ hasActions = FALSE
  /\ todo = {}
  /\ NoWorkspace
  /\ NoDiv

LibraryList ==
  /\ pc = "list"
  /\ libraries' = libraryList(user, groups)
  /\ pc' = "listed"
  /\ UNCHANGED <<store, library, groupSync, versions, syncActions, deleted,
                 collectionChanges, collections, itemChanges, items, calls, promise,
                 merged, hasActions, wrote, todo, user, groups, wsVars, divVars>>

NextList == LibraryList

SpecList == InitList /\ [][NextList]_vars

\* ---------------------------------------------- librarySync on any inputs
\* librarySync is a function of the stored snapshot and the plan: SpecMerge starts
\* where a plan has been returned, with any stored sequences (keys may repeat) and
\* any plan (deleted and updated may overlap, updated may repeat a key).
KeySeqs(n) == UNION { [1..m -> Keys] : m \in 0..n }
UpdatedCollections(u) == [ i \in DOMAIN u |-> Collection(u[i], "remote") ]
UpdatedItems(u) == [ i \in DOMAIN u |-> Item(u[i], "remote", FALSE) ]

InitMerge ==
  /\ library \in Libraries
  /\ groupSync \in GroupSyncs(library)
  /\ \E v \in StoredCursors, s \in KeySeqs(MaxStored) :
       store = Snapshot(library.group, v, s)
  /\ \E v \in StoredCursors, d \in KeySeqs(MaxActions), u \in KeySeqs(MaxActions) :
       promise = Fulfilled(
         [ versions    |-> v,
           group       |-> GroupOr(groupSync, NoGroup),
           collections |-> [deleted |-> d, updated |-> UpdatedCollections(u)],
           items       |-> [deleted |-> d, updated |-> UpdatedItems(u)] ])
  /\ pc = "done"
  /\ NoLocals
  /\ calls = <<>>
  /\ merged = NoData
  /\ hasActions = FALSE
  /\ todo = {}
  /\ NoList
  /\ NoWorkspace
  /\ NoDiv

\* the same plan is applied once more, to the snapshot that was written
LibrarySyncAgain ==
  /\ pc = "written"
  /\ merged' = librarySync(store, library, promise.value)
  /\ pc' = "remerged"
  /\ UNCHANGED <<store, library, groupSync, versions, syncActions, deleted,
                 collectionChanges, collections, itemChanges, items, calls, promise>>
  /\ UNCHANGED <<hasActions, wrote, todo, listVars, wsVars, divVars>>

NextMerge ==
  \/ LibrarySync
  \/ LibraryWrite
  \/ LibrarySyncAgain
  \/ HasLibrarySyncActions

SpecMerge == InitMerge /\ [][NextMerge]_vars

\* ================================================================== claims
Plan == promise.value

\* every version a response of this cycle reported is at or above the cursor queried
ReportedNotBelowCursor ==
  /\ deleted.version # NoVersion => deleted.version[1] >= versions.deleted
  /\ collectionChanges.version # NoVersion
       => collectionChanges.version[1] >= versions.collections
  /\ itemChanges.version # NoVersion => itemChanges.version[1] >= versions.items

\* C1: when a cycle succeeds and librarySync's snapshot becomes the new cursor, none
\* of versions.collections, versions.items, versions.deleted is below its value
\* before the cycle, provided no response reported a version below the cursor queried.
C1_CursorMonotone ==
  [][ (pc = "done" /\ pc' = "merged" /\ ReportedNotBelowCursor)
        => /\ merged'.versions.collections >= store.versions.collections
           /\ merged'.versions.items >= store.versions.items
           /\ merged'.versions.deleted >= store.versions.deleted ]_vars

\* C2: a response that is present but carries no version leaves the plan's version
\* of its stream at the cursor read from the store at the start of the cycle.
C2_FallbackPreserved ==
  /\ (pc \in {"collectionVersions", "collections", "itemVersions", "items", "done"}
        /\ deleted.some /\ deleted.version = NoVersion)
       => syncActions.versions.deleted = versions.deleted
  /\ (pc \in {"itemVersions", "items", "done"}
        /\ collectionChanges.some /\ collectionChanges.version = NoVersion)
       => syncActions.versions.collections = versions.collections
  /\ (pc = "done" /\ itemChanges.some /\ itemChanges.version = NoVersion)
       => syncActions.versions.items = versions.items

\* C3: if any remote call of the cycle failed, librarySyncActions ended rejected and
\* the caller holds no plan, whatever the earlier calls had put into the plan.
C3_AllOrNothing ==
  (\E i \in DOMAIN calls : ~calls[i].ok)
    => /\ pc = "failed"
       /\ promise.state = "rejected"
       /\ promise.value = NoPlan
       /\ merged = NoData

\* a call failed after earlier calls had already populated the plan
C3_Witness ==
  /\ pc = "failed"
  /\ Len(calls) >= 3
  /\ Len(syncActions.collections.deleted) > 0
  /\ Len(syncActions.collections.updated) > 0

\* C4: no step of librarySyncActions and no call of librarySync changes the
\* persisted cursor or snapshot; after a failed cycle the stored cursor is the one
\* the cycle queried with.
C4_StoreUntouched ==
  [][ /\ pc # "merged" => store' = store
      /\ pc' = "failed" => store'.versions = versions' ]_vars

\* a cycle failed after the plan had moved past the stored cursor and had collected
\* deletions: the store is as it was
C4_Witness ==
  /\ pc = "failed"
  /\ Len(calls) >= 2
  /\ syncActions.versions.deleted > store.versions.deleted
  /\ Len(syncActions.items.deleted) > 0
  /\ Len(store.items) = Cardinality(Keys)

\* the keys the item path pushed to items.deleted (after those of the deletion feed)
ItemPathDeleted ==
  SubSeq(syncActions.items.deleted, Len(deleted.items) + 1,
         Len(syncActions.items.deleted))

\* C5: every fetched item flagged deleted has its key in items.deleted and is not in
\* items.updated; every other fetched item is in items.updated and the item path
\* did not push its key to items.deleted.
C5_DeletionPrecedence ==
  pc = "done" =>
    \A i \in DOMAIN items :
      IF items[i].deleted
        THEN /\ Includes(Plan.items.deleted, items[i].key)
             /\ ~Includes(KeysOf(Plan.items.updated), items[i].key)
        ELSE /\ Includes(Plan.items.updated, items[i])
             /\ ~Includes(ItemPathDeleted, items[i].key)

\* a cycle fetched a flagged and an unflagged item
C5_Witness ==
  /\ pc = "done"
  /\ \E i, j \in DOMAIN items : items[i].deleted /\ ~items[j].deleted

\* C6: in a returned plan no key is in deleted and also the key of an updated entry,
\* for collections and for items.
C6_DeletedUpdatedDisjoint ==
  pc = "done" =>
    /\ \A k \in Keys : ~(Includes(Plan.collections.deleted, k)
                           /\ Includes(KeysOf(Plan.collections.updated), k))
    /\ \A k \in Keys : ~(Includes(Plan.items.deleted, k)
                           /\ Includes(KeysOf(Plan.items.updated), k))

\* C7: applying a plan to the snapshot that applying it once produced gives that
\* snapshot again: same collections, items, versions and group.
C7_MergeIdempotent ==
  pc = "remerged" => merged = store

\* a plan that deletes, replaces and keeps entries was applied twice
C7_Witness ==
  /\ pc = "remerged"
  /\ Len(Plan.collections.deleted) > 0
  /\ \E i \in DOMAIN Plan.collections.updated :
       /\ Includes(Plan.collections.deleted, Plan.collections.updated[i].key)
       /\ Includes(KeysOf(store.collections), Plan.collections.updated[i].key)
  /\ Len(store.items) > Len(Plan.items.updated)

NoKeyTwice(objects) ==
  \A i, j \in DOMAIN objects : objects[i].key = objects[j].key => i = j

\* the entries of objects with the key of u are u alone
OnlyAs(objects, u) ==
  /\ \E i \in DOMAIN objects : objects[i] = u
  /\ \A i \in DOMAIN objects : objects[i].key = u.key => objects[i] = u

\* C8: merging a plan of librarySyncActions into a snapshot with unique keys gives
\* sequences that hold every key at most once; an updated entity is there exactly
\* once, as the fetched version.
C8_NoDuplicates ==
  pc = "merged" =>
    /\ NoKeyTwice(merged.collections)
    /\ NoKeyTwice(merged.items)
    /\ \A i \in DOMAIN Plan.collections.updated :
         OnlyAs(merged.collections, Plan.collections.updated[i])
    /\ \A i \in DOMAIN Plan.items.updated :
         OnlyAs(merged.items, Plan.items.updated[i])

\* an item and a collection that were stored were updated
C8_Witness ==
  /\ pc = "merged"
  /\ \E i \in DOMAIN Plan.items.updated :
       Includes(KeysOf(store.items), Plan.items.updated[i].key)
  /\ \E i \in DOMAIN Plan.collections.updated :
       Includes(KeysOf(store.collections), Plan.collections.updated[i].key)
  /\ Len(merged.items) = Cardinality(Keys)

\* the stored entries that are neither deleted nor updated, in stored order
Survivors(objects, actions) ==
  LET gone == Range(actions.deleted) \cup Range(KeysOf(actions.updated))
      Kept(obj) == obj.key \notin gone
  IN  SelectSeq(objects, Kept)

\* C9: the merged sequence is the stored one without the entries whose key is deleted
\* or updated, in their stored order, followed by the updated entries in plan order.
C9_SurvivorsThenUpdated ==
  pc = "merged" =>
    /\ merged.collections
         = Survivors(store.collections, Plan.collections) \o Plan.collections.updated
    /\ merged.items = Survivors(store.items, Plan.items) \o Plan.items.updated

\* two stored entries survive around a deleted one, and a stored entry that was
\* updated is now last
C9_Witness ==
  /\ pc = "merged"
  /\ Len(store.collections) = 3
  /\ Len(Survivors(store.collections, Plan.collections)) = 2
  /\ Len(Plan.collections.deleted) > 0
  /\ Len(store.items) = 3
  /\ Len(Plan.items.updated) = 1
  /\ store.items[1].key = Plan.items.updated[1].key
  /\ merged.items[Len(merged.items)] = Plan.items.updated[1]

\* C10: after librarySync no entity whose key is in the plan's deleted list is in the
\* snapshot, and every stored entity whose key is neither deleted nor updated is.
C10_DeletedAbsent ==
  pc = "merged" =>
    /\ \A i \in DOMAIN merged.collections :
         ~Includes(Plan.collections.deleted, merged.collections[i].key)
    /\ \A i \in DOMAIN merged.items :
         ~Includes(Plan.items.deleted, merged.items[i].key)
    /\ \A i \in DOMAIN store.collections :
         (/\ ~Includes(Plan.collections.deleted, store.collections[i].key)
          /\ ~Includes(KeysOf(Plan.collections.updated), store.collections[i].key))
           => Includes(merged.collections, store.collections[i])
    /\ \A i \in DOMAIN store.items :
         (/\ ~Includes(Plan.items.deleted, store.items[i].key)
          /\ ~Includes(KeysOf(Plan.items.updated), store.items[i].key))
           => Includes(merged.items, store.items[i])

\* C11: when the three delta queries all report no changes for a library whose
\* stored snapshot is not empty and whose stored cursors are not zero, the plan has
\* no actions and librarySync's snapshot equals the stored state, cursors included.
C11_NoChangesNoOp ==
  [][ ( /\ pc = "done" /\ pc' = "merged"
        /\ groupSync = NoGroup
        /\ ~deleted.some /\ ~collectionChanges.some /\ ~itemChanges.some
        /\ Len(store.collections) > 0 /\ Len(store.items) > 0
        /\ store.versions.collections > 0
        /\ store.versions.items > 0
        /\ store.versions.deleted > 0 )
        => /\ ~hasLibrarySyncActions(Plan)
           /\ merged' = store ]_vars

\* C12: hasLibrarySyncActions(plan) is true exactly when the plan's group is present
\* or one of collections.deleted, collections.updated, items.deleted, items.updated
\* is not empty; the plan's versions play no part.
C12_HasActionsIff ==
  pc = "checked" =>
    ( hasActions <=>
        \/ Plan.group # NoGroup
        \/ Plan.collections.deleted # <<>>
        \/ Plan.collections.updated # <<>>
        \/ Plan.items.deleted # <<>>
        \/ Plan.items.updated # <<>> )

\* the only action of the plan is an item key to delete, and a cursor has advanced
C12_Witness ==
  /\ pc = "checked"
  /\ hasActions
  /\ Plan.group = NoGroup
  /\ Plan.collections.deleted = <<>>
  /\ Plan.collections.updated = <<>>
  /\ Plan.items.deleted # <<>>
  /\ Plan.items.updated = <<>>
  /\ Plan.versions.items > 0

\* C13: whenever hasLibrarySyncActions is false for the plan librarySyncActions
\* returned, the snapshot librarySync returns equals the stored state, cursors
\* included, so skipping the write cannot be observed.
C13_SkipUnobservable ==
  (pc = "checked" /\ ~hasActions) => merged = store

\* C14: libraryList(user, groups) returns 1 + |groups| libraries: first the personal
\* library with the user's id, then one group library per input group, in input
\* order, each with that group's id and metadata; no groups give the personal
\* library alone.
C14_LibraryList ==
  pc = "listed" =>
    /\ Len(libraries) = 1 + Len(groups)
    /\ libraries[1] = [type |-> "user", id |-> user.userID]
    /\ \A i \in DOMAIN groups :
         /\ libraries[i + 1].type = "group"
         /\ libraries[i + 1].id = groups[i].id
         /\ libraries[i + 1].group = groups[i]
    /\ groups = <<>> => libraries = << [type |-> "user", id |-> user.userID] >>

\* three groups were given, the first two with different ids
C14_Witness ==
  /\ pc = "listed"
  /\ Len(groups) = 3
  /\ groups[1].id # groups[2].id
  /\ Len(libraries) = 4

\* C15: the group metadata of librarySync's snapshot is the plan's group when the
\* plan has one, and otherwise the group metadata the library already holds; a plan
\* without a group never clears or changes it.
C15_GroupFallback ==
  pc = "merged" =>
    /\ Plan.group # NoGroup => merged.group = Plan.group
    /\ Plan.group = NoGroup => (merged.group = library.group /\ merged.group = store.group)

\* a group library synced without new group metadata keeps the group it has
C15_Witness ==
  /\ pc = "merged"
  /\ Plan.group = NoGroup
  /\ library.group = "G0"
  /\ merged.group = "G0"

\* C16 (as stated): no field of the plan is written by more than one of the three
\* query paths: the fields the deletion path, the collection path and the item path
\* change are pairwise disjoint.
C16_WriteSetsDisjoint ==
  pc = "done" =>
    /\ wrote.deletion \cap wrote.collections = {}
    /\ wrote.deletion \cap wrote.items = {}
    /\ wrote.collections \cap wrote.items = {}

\* C16 (amended): the deletion path changes only versions.deleted, collections.deleted
\* and items.deleted, the collection path only versions.collections and
\* collections.updated, the item path only versions.items, items.updated and
\* items.deleted: the write sets are disjoint except for items.deleted, which the
\* deletion path and the item path both append to.
C16_WriteSets ==
  /\ wrote.deletion \subseteq {"versions.deleted", "collections.deleted", "items.deleted"}
  /\ wrote.collections \subseteq {"versions.collections", "collections.updated"}
  /\ wrote.items \subseteq {"versions.items", "items.updated", "items.deleted"}

\* the deletion path and the item path have both appended to items.deleted, and the
\* collection path has written too
C16_Witness ==
  /\ pc = "done"
  /\ "items.deleted" \in wrote.deletion \cap wrote.items
  /\ wrote.collections = {"versions.collections", "collections.updated"}

\* the plan the code builds from the answers held in the state, in the order in
\* which it awaits them: deletion, collections, items
SequentialPlan ==
  LET afterDeleted == ApplyDeleted(NewSyncActions(groupSync), deleted)
      afterCollections ==
        IF collectionChanges.some
          THEN ApplyCollections(afterDeleted, collectionChanges, collections)
          ELSE afterDeleted
  IN  IF itemChanges.some
        THEN ApplyItems(afterCollections, itemChanges, items)
        ELSE afterCollections

C19_DeletionPath ==
  /\ pc = "collectionVersions" =>
        /\ syncActions.collections.deleted = deleted.collections
        /\ syncActions.items.deleted = deleted.items
        /\ syncActions.collections.updated = <<>>
        /\ syncActions.items.updated = <<>>
        /\ (deleted.some /\ deleted.version # NoVersion)
             => syncActions.versions.deleted = deleted.version[1]
        /\ ~deleted.some =>
             /\ syncActions.collections.deleted = <<>>
             /\ syncActions.items.deleted = <<>>
  /\ pc = "done" =>
        /\ Plan.collections.deleted = deleted.collections
        /\ \A k \in Range(deleted.items) : Includes(Plan.items.deleted, k)
        /\ (deleted.some /\ deleted.version # NoVersion)
             => Plan.versions.deleted = deleted.version[1]

\* the deletion response lists one collection key and another item key, at version 1
C19_Witness ==
  /\ pc = "collectionVersions"
  /\ deleted.some
  /\ deleted.version = <<1>>
  /\ Len(deleted.collections) = 1
  /\ Len(deleted.items) = 1
  /\ deleted.collections # deleted.items
  /\ syncActions.collections.deleted = deleted.collections

CallsOf(op) == SelectSeq(calls, LAMBDA c : c.op = op)

\* C21: when the collection-change query reports no changes, collections.updated is
\* empty, no collection fetch is issued and collections.deleted is exactly the
\* deletion response's collection keys; the same for items when the item-change
\* query reports no changes.
C21_NoChangesNoFetch ==
  pc = "done" =>
    /\ ~collectionChanges.some =>
         /\ Plan.collections.updated = <<>>
         /\ CallsOf("collections") = <<>>
         /\ Plan.collections.deleted = deleted.collections
    /\ ~itemChanges.some =>
         /\ Plan.items.updated = <<>>
         /\ CallsOf("items") = <<>>
         /\ Plan.items.deleted = deleted.items

\* neither stream reports changes while the deletion response lists a collection
\* key and an item key
C21_Witness ==
  /\ pc = "done"
  /\ ~collectionChanges.some
  /\ ~itemChanges.some
  /\ Plan.collections.deleted # <<>>
  /\ Plan.items.deleted # <<>>

\* C22: collections.updated is the sequence the collection fetch returned, in that
\* order, and items.updated is the subsequence of the item fetch's result made of
\* the items without the deleted flag, in the order of the fetch.
C22_FetchOrderKept ==
  pc = "done" =>
    /\ Plan.collections.updated = collections
    /\ Plan.items.updated = SelectSeq(items, LAMBDA i : ~i.deleted)

\* the collection fetch answered K2 before K1, and the item fetch answered two
\* items of which the first is flagged
C22_Witness ==
  /\ pc = "done"
  /\ Len(collections) = 2
  /\ collections[1].key = "K2"
  /\ Len(items) = 2
  /\ items[1].deleted /\ ~items[2].deleted
  /\ Plan.items.updated = << items[2] >>

\* C23: when a collection-change or item-change response is present but carries no
\* version, the fetch is still issued with exactly the keys of the response and the
\* fetched entities are placed in the plan (updated, or items.deleted for flagged
\* items); the stream's cursor is not advanced.
C23_FetchWithoutVersion ==
  pc = "done" =>
    /\ (collectionChanges.some /\ collectionChanges.version = NoVersion) =>
         /\ CallsOf("collections") = << Call("collections", 0, collectionChanges.keys, TRUE) >>
         /\ Plan.collections.updated = collections
         /\ Plan.versions.collections <= versions.collections
    /\ (itemChanges.some /\ itemChanges.version = NoVersion) =>
         /\ CallsOf("items") = << Call("items", 0, itemChanges.keys, TRUE) >>
         /\ \A i \in DOMAIN items :
              IF items[i].deleted
                THEN Includes(Plan.items.deleted, items[i].key)
                ELSE Includes(Plan.items.updated, items[i])
         /\ Plan.versions.items <= versions.items

\* both responses lack a version and name keys; a flagged and an unflagged item
\* were fetched
C23_Witness ==
  /\ pc = "done"
  /\ collectionChanges.some /\ collectionChanges.version = NoVersion
  /\ collectionChanges.keys # {}
  /\ itemChanges.some /\ itemChanges.version = NoVersion
  /\ Len(items) = 2
  /\ items[1].deleted /\ ~items[2].deleted

\* C24: the deletion, collection-version and item-version queries are issued
\* concurrently: while the deletion query is awaiting its response, the responses
\* to the collection-version and to the item-version query can arrive (they have
\* been issued), and likewise the item-version response can arrive while the
\* collection-version query is awaiting; the plan is returned only after all three
\* queries have completed.
C24_IssuedConcurrently ==
  /\ pc = "deleted" => (ENABLED CollectionVersions /\ ENABLED ItemVersions)
  /\ pc = "collectionVersions" => ENABLED ItemVersions
  /\ pc = "done" =>
        /\ CallsOf("deleted") # <<>>
        /\ CallsOf("collectionVersions") # <<>>
        /\ CallsOf("itemVersions") # <<>>

\* C25: librarySync modifies neither the plan it is given nor the sequences read
\* from the store: the plan's deleted lists, updated lists, versions and group and
\* the stored collections and items are after the call what they were before.
C25_MergeFrame ==
  [][ ((pc = "done" /\ pc' = "merged") \/ (pc = "written" /\ pc' = "remerged"))
        => /\ promise' = promise
           /\ store'.collections = store.collections
           /\ store'.items = store.items ]_vars

\* librarySync has returned a snapshot that differs from the stored one in both
\* sequences, from a plan with deleted keys and updated entries
C25_Witness ==
  /\ pc = "merged"
  /\ Plan.collections.deleted # <<>>
  /\ Plan.items.updated # <<>>
  /\ Len(store.collections) > 0
  /\ merged.collections # store.collections
  /\ merged.items # store.items

\* C26: when a delta query reports no changes for a stream, the version the plan
\* reports for that stream is the stored cursor the query was made with, so that
\* the cursors of the unchanged streams stay at their stored values.
C26_NoChangesKeepsCursor ==
  pc = "done" =>
    /\ ~deleted.some => Plan.versions.deleted = store.versions.deleted
    /\ ~collectionChanges.some => Plan.versions.collections = store.versions.collections
    /\ ~itemChanges.some => Plan.versions.items = store.versions.items

\* C27: the versions of the snapshot librarySync returns are exactly the three
\* versions of the plan, whatever the stored cursor is and whether or not the plan
\* has any deletion or update.
C27_SnapshotVersions ==
  pc \in {"merged", "remerged"} =>
    /\ merged.versions.collections = Plan.versions.collections
    /\ merged.versions.items = Plan.versions.items
    /\ merged.versions.deleted = Plan.versions.deleted

\* a plan without any action whose versions differ from the stored cursors
C27_Witness ==
  /\ pc = "merged"
  /\ ~hasLibrarySyncActions(Plan)
  /\ Plan.versions.items # store.versions.items
  /\ merged.versions = Plan.versions

\* how often key k occurs among the keys of a sequence of entities
Occurrences(objects, k) == Cardinality({ i \in DOMAIN objects : objects[i].key = k })

\* the claim of C28 for one stored sequence, one action set and its merged sequence
KeepsUpdated(stored, actions, result) ==
  \A j \in DOMAIN actions.updated :
    LET k == actions.updated[j].key
    IN  (Includes(actions.deleted, k) /\ Occurrences(actions.updated, k) = 1)
          => /\ Occurrences(result, k) = 1
             /\ result[Len(result) - Len(actions.updated) + j] = actions.updated[j]
             /\ \A i \in DOMAIN stored :
                  stored[i].key = k => ~Includes(result, stored[i])

\* C28: when a key is in an action set's deleted list and is the key of an entry of
\* its updated list, syncObjects keeps the updated entry: the merged sequence has
\* that key exactly once, at its place among the appended updated entries, and the
\* stored entry with that key is gone. (For a key that updated holds once; a key
\* that updated holds twice is appended twice.)
C28_UpdateWinsOverDelete ==
  pc = "merged" =>
    /\ KeepsUpdated(store.collections, Plan.collections, merged.collections)
    /\ KeepsUpdated(store.items, Plan.items, merged.items)

\* a stored key is both deleted and updated by the plan, next to another update
C28_Witness ==
  /\ pc = "merged"
  /\ Len(Plan.collections.updated) = 2
  /\ Plan.collections.updated[1].key # Plan.collections.updated[2].key
  /\ Includes(Plan.collections.deleted, Plan.collections.updated[1].key)
  /\ Includes(KeysOf(store.collections), Plan.collections.updated[1].key)
  /\ merged.collections[Len(merged.collections) - 1] = Plan.collections.updated[1]

\* C29: when a relevant document is opened in the editor while openMarkdownDocument
\* is still reading the same resource from disk, the cache entry the open event
\* created (holding the in-memory document) is still the entry for that URI after
\* the read completes, and at most one document object per URI is handed out while
\* the URI stays cached.
C29_OpenEntrySurvivesRead ==
  [][ \A u \in Uris :
        /\ ( /\ reads'[u] < reads[u]
             /\ documentCache[u] # 0
             /\ vsCodeDocuments[documentCache[u]].inMemoryDoc )
             => documentCache'[u] = documentCache[u]
        /\ documentCache'[u] # 0 => Cardinality(handed'[u]) <= 1 ]_vars

\* C30: every entry of documentCache has an in-memory or an on-disk document; a
\* close that leaves the entry detached removes it from the cache and fires exactly
\* one delete event for its URI (and nothing else); a change event is fired only
\* for a document that is the cache's entry for its URI.
C30_CacheEntriesAttached ==
  /\ \A u \in Uris :
       documentCache[u] # 0 =>
         ( vsCodeDocuments[documentCache[u]].inMemoryDoc
             \/ vsCodeDocuments[documentCache[u]].onDiskDoc )
  /\ (handler.name = "close" /\ handler.detached) =>
       /\ documentCache[handler.uri] = 0
       /\ fired = << [kind |-> "delete", uri |-> handler.uri, doc |-> 0, cached |-> TRUE] >>
  /\ \A i \in DOMAIN fired : fired[i].kind = "change" => fired[i].cached

\* a document that was only in memory has been closed while another URI is cached
\* from disk
C30_Witness ==
  /\ handler.name = "close"
  /\ handler.detached
  /\ documentCache[handler.uri] = 0
  /\ \E u \in Uris : documentCache[u] # 0 /\ vsCodeDocuments[documentCache[u]].onDiskDoc

\* the line of the last invocation is a fence line: three or more colons, with
\* attributes in braces or with nothing after the colons
FenceLine(l) == l.colons >= 3 /\ l.rest \in {"", "{.note}"}

\* C31: in the div rule, over any sequence of fence lines, the open count kept per
\* fence string is never below zero; a fence line with attributes always produces
\* an open token and increments the count of its fence string; a fence line
\* without attributes produces a close token and decrements the count exactly when
\* the count of that fence string was above zero before the line, and otherwise
\* produces an open token.
C31_DivCounts ==
  [][ /\ \A f \in DOMAIN quartoOpenDivs' : quartoOpenDivs'[f] >= 0
      /\ (~divCall'.silent /\ FenceLine(divCall'.line)) =>
           LET f == divCall'.line.colons
               before == OpenCount(quartoOpenDivs, f)
               after == OpenCount(quartoOpenDivs', f)
           IN  /\ Len(pushed') = 1
               /\ pushed'[1].markup = divCall'.line
               /\ divCall'.line.rest # "" =>
                    (pushed'[1].type = "pandoc_div_open" /\ after = before + 1)
               /\ (divCall'.line.rest = "" /\ before > 0) =>
                    (pushed'[1].type = "pandoc_div_close" /\ after = before - 1)
               /\ (divCall'.line.rest = "" /\ before = 0) =>
                    pushed'[1].type = "pandoc_div_open"
               /\ \A g \in DOMAIN quartoOpenDivs :
                    g # f => OpenCount(quartoOpenDivs', g) = quartoOpenDivs[g] ]_vars

\* a bare fence has just closed a div while a div of another fence string and a
\* second div of the same fence string, opened by a fence with attributes, stay open
C31_Witness ==
  /\ ~divCall.silent
  /\ divCall.line = [colons |-> 3, rest |-> ""]
  /\ Len(pushed) = 1
  /\ pushed[1].type = "pandoc_div_close"
  /\ OpenCount(quartoOpenDivs, 3) = 1
  /\ OpenCount(quartoOpenDivs, 4) = 1

====
